---- MODULE Spec2Model ----
(***************************************************************************)
(* ESP32 web controlled thermostat (src/src/main.cpp).                     *)
(*                                                                         *)
(* State: the in-memory temperature range, the EEPROM (its RAM buffer and  *)
(* the flash behind it), the sensor-reading indicator (readingTemperature, *)
(* startRead), the two LED outputs and the millisecond clock.              *)
(*                                                                         *)
(* Two tasks run the code: the web server task runs one request handler at *)
(* a time, the Arduino loop task runs loop() forever.  The handlers that   *)
(* only touch tempRange and the EEPROM are single actions; the variables   *)
(* shared by the two tasks (readingTemperature, startRead) are accessed    *)
(* one memory access per action.                                           *)
(***************************************************************************)
EXTENDS Integers, Sequences, FiniteSets, TLC

VARIABLES tempRange,           \* TempRange tempRange
          eeprom,              \* the EEPROM's RAM buffer
          flash,               \* the EEPROM's content in flash
          faults,              \* number of failed commits
          readingTemperature,  \* bool readingTemperature
          startRead,           \* uint32_t startRead
          initLed,             \* output level of INIT_LED
          tempLed,             \* output level of TEMP_LED
          now,                 \* millis()
          advances,            \* number of clock advances
          dht,                 \* what dht.readTemperature() returns
          reqPc,               \* position of the web server task
          req,                 \* the handler the web server task runs
          loopPc,              \* position of the loop task
          tickV,               \* value the loop task computed for the flag
          window,              \* flash window of the latest reading
          sample,              \* when the latest pass of flashTempBeacon sampled
          sinceRead,           \* milliseconds since startRead was written
          last                 \* what the latest handler did

storeVars == <<tempRange, eeprom, flash, faults>>
ledVars == <<readingTemperature, startRead, initLed, tempLed>>
loopVars == <<loopPc, tickV, sample>>
vars == <<tempRange, eeprom, flash, faults, readingTemperature, startRead,
          initLed, tempLed, now, advances, dht, reqPc, req, loopPc, tickV,
          window, sample, sinceRead, last>>

----------------------------------------------------------------------------
(* Program constants *)

INIT_FLAG == 42
MIN_TEMP == 10
MAX_TEMP == 14
ERASED_FLAG == 255
ADDR_INIT_FLAG == 0
ADDR_MIN_TEMP == 1
ADDR_MAX_TEMP == 5
TEMP_FLASH_MS == 50
WIFI_FLASH_MS == 50
WIFI_PERIOD_MS == 2000
SETUP_MS == 500

HIGH == 1
LOW == 0

(* millis() and startRead are unsigned integers of 32 bits; the model      *)
(* gives them 13 bits, which is more than any interval it measures.        *)
ClockModulus == 8192

(* float_t: the model's floats are a few integers and the not-a-number     *)
(* value, which compares false with everything under <, > and !=.          *)
NaN == 999

FloatNe(a, b) == a = NaN \/ b = NaN \/ a # b
FloatEq(a, b) == a # NaN /\ b # NaN /\ a = b
FloatLt(a, b) == a # NaN /\ b # NaN /\ a < b
FloatGt(a, b) == a # NaN /\ b # NaN /\ a > b
isnan(a) == a = NaN

----------------------------------------------------------------------------
(* Bounds and input domains *)

MaxFaults == 1
MaxAdvances == 3

FloatValues == {0, 10, 14, NaN}
FlagValues == {INIT_FLAG, ERASED_FLAG, 0}
ParamStrings == {"x", "10", "14", "nan"}
Readings == {9, 10, 12, 14, 15, NaN}
ClockSteps == {1, 49, 1500}

(* String::toFloat(): the number the text spells, 0 when it spells none.   *)
toFloat(s) ==
    CASE s = "10" -> 10
      [] s = "14" -> 14
      [] s = "nan" -> NaN
      [] OTHER -> 0

----------------------------------------------------------------------------
(* EEPROM: reads and writes go to a RAM buffer, commit() copies the buffer *)
(* to flash and may fail, begin() loads the buffer from flash.             *)

Rom(f, lo, hi) == [flag |-> f, min |-> lo, max |-> hi]

Call(c, a, v) == [call |-> c, addr |-> a, val |-> v]

(* What a handler did: the state it started from, its parameters, the      *)
(* EEPROM calls, the responses and the trigger calls it made, in order,    *)
(* whether a commit it made failed, and how often it read the sensor.      *)
Observed(op) ==
    [op |-> op, prev |-> last.op, pre |-> tempRange, rom |-> eeprom, disk |-> flash,
     hasLower |-> FALSE, hasUpper |-> FALSE, lower |-> 0, upper |-> 0,
     calls |-> <<>>, sent |-> <<>>, hooks |-> <<>>, temp |-> 0, body |-> "",
     fault |-> FALSE, reads |-> 0]

Range(i, lo, hi) == [initialized |-> i, lower |-> lo, upper |-> hi]

----------------------------------------------------------------------------
(* initTempRange() *)

(* Variant: every flag but the erased one counts as initialized.           *)
initTempRange_notErased(rom) ==
    LET initialized == rom.flag # ERASED_FLAG
    IN  Range(initialized,
              IF initialized THEN rom.min ELSE MIN_TEMP,
              IF initialized THEN rom.max ELSE MAX_TEMP)

initTempRange(rom) ==
    LET minTemp == rom.min
        maxTemp == rom.max
        initialized == rom.flag = INIT_FLAG
    IN  Range(initialized,
              IF initialized THEN minTemp ELSE MIN_TEMP,
              IF initialized THEN maxTemp ELSE MAX_TEMP)

NoSample == [at |-> 0, after |-> FALSE]

(* The state with the loop task at the start of a pass and no request in   *)
(* progress, at time t, after failed commits, before any reading.          *)
Setup(t, failed) ==
    /\ flash \in {Rom(f, lo, hi) : f \in FlagValues, lo \in FloatValues, hi \in FloatValues}
    /\ eeprom = flash
    /\ faults = failed
    /\ tempRange = initTempRange(eeprom)
    /\ readingTemperature = FALSE
    /\ startRead = 0
    /\ initLed = LOW
    /\ tempLed = LOW
    /\ now = t
    /\ advances = 0
    /\ dht \in Readings
    /\ reqPc = "idle"
    /\ req = "none"
    /\ loopPc = "wifi"
    /\ tickV = FALSE
    /\ window = "none"
    /\ sample = NoSample
    /\ sinceRead = t
    /\ last = [op |-> "setup", prev |-> "none", pre |-> tempRange, rom |-> eeprom,
               disk |-> flash, hasLower |-> FALSE, hasUpper |-> FALSE,
               lower |-> 0, upper |-> 0, calls |-> <<>>, sent |-> <<>>,
               hooks |-> <<>>, temp |-> 0, body |-> "", fault |-> FALSE,
               reads |-> 0]

(* setup(): the state in which the server starts to take requests.         *)
Init == Setup(SETUP_MS, 0)

----------------------------------------------------------------------------
(* saveTempRangeToEEPROM(lower, upper): the range and the buffer it leaves *)
(* and the EEPROM calls it makes.                                          *)

Saved(range, rom, lower, upper, lowerChanged, upperChanged, setFlag, hasToBeSaved) ==
    [range |-> Range(range.initialized \/ setFlag,
                     IF lowerChanged THEN lower ELSE range.lower,
                     IF upperChanged THEN upper ELSE range.upper),
     rom |-> Rom(IF setFlag THEN INIT_FLAG ELSE rom.flag,
                 IF lowerChanged THEN lower ELSE rom.min,
                 IF upperChanged THEN upper ELSE rom.max),
     calls |-> (IF lowerChanged THEN <<Call("writeFloat", ADDR_MIN_TEMP, lower)>> ELSE <<>>)
               \o (IF upperChanged THEN <<Call("writeFloat", ADDR_MAX_TEMP, upper)>> ELSE <<>>)
               \o (IF setFlag THEN <<Call("writeByte", ADDR_INIT_FLAG, INIT_FLAG)>> ELSE <<>>)
               \o (IF hasToBeSaved THEN <<Call("commit", 0, 0)>> ELSE <<>>),
     commit |-> hasToBeSaved]

(* Variant: commits whether or not a bound changed.                        *)
saveTempRange_alwaysCommit(range, rom, lower, upper) ==
    LET lowerChanged == FloatNe(lower, range.lower)
        upperChanged == FloatNe(upper, range.upper)
    IN  Saved(range, rom, lower, upper, lowerChanged, upperChanged,
              ~range.initialized, TRUE)

(* Variant: never stores the control value.                                *)
saveTempRange_noFlag(range, rom, lower, upper) ==
    LET lowerChanged == FloatNe(lower, range.lower)
        upperChanged == FloatNe(upper, range.upper)
    IN  Saved(range, rom, lower, upper, lowerChanged, upperChanged,
              FALSE, lowerChanged \/ upperChanged)

(* Variant: writes both bounds as soon as one of them changed.             *)
saveTempRange_bothSlots(range, rom, lower, upper) ==
    LET hasToBeSaved == FloatNe(lower, range.lower) \/ FloatNe(upper, range.upper)
    IN  Saved(range, rom, lower, upper, hasToBeSaved, hasToBeSaved,
              hasToBeSaved /\ ~range.initialized, hasToBeSaved)

(* Variant: stores the control value with every save that changes a bound. *)
saveTempRange_alwaysFlag(range, rom, lower, upper) ==
    LET lowerChanged == FloatNe(lower, range.lower)
        upperChanged == FloatNe(upper, range.upper)
        hasToBeSaved == lowerChanged \/ upperChanged
    IN  Saved(range, rom, lower, upper, lowerChanged, upperChanged,
              hasToBeSaved, hasToBeSaved)

(* Variant: compares the new values with the content of the EEPROM buffer.  *)
saveTempRange_againstRom(range, rom, lower, upper) ==
    LET lowerChanged == FloatNe(lower, rom.min)
        upperChanged == FloatNe(upper, rom.max)
        hasToBeSaved == lowerChanged \/ upperChanged
        setFlag == hasToBeSaved /\ ~range.initialized
    IN  Saved(range, rom, lower, upper, lowerChanged, upperChanged, setFlag, hasToBeSaved)

saveTempRangeToEEPROM(range, rom, lower, upper) ==
    LET lowerChanged == FloatNe(lower, range.lower)
        upperChanged == FloatNe(upper, range.upper)
        hasToBeSaved == lowerChanged \/ upperChanged
        setFlag == hasToBeSaved /\ ~range.initialized
    IN  Saved(range, rom, lower, upper, lowerChanged, upperChanged, setFlag, hasToBeSaved)

(* EEPROM.commit(): with ok the buffer reaches the flash.                  *)
Commit(rom, ok) ==
    /\ flash' = IF ok THEN rom ELSE flash
    /\ faults' = IF ok THEN faults ELSE faults + 1

CommitOutcomes == IF faults < MaxFaults THEN {TRUE, FALSE} ELSE {TRUE}

(* The query parameters of a /savethresholds request: each of "lower" and  *)
(* "upper" is present with a text value, or missing.                       *)
Missing == "missing"
ParamValues == ParamStrings \cup {Missing}

(* The test of onSaveThresholds on its two parameters.                     *)

(* Variant: one of the two parameters is enough.                           *)
hasParams_either(hasLower, hasUpper) == hasLower \/ hasUpper

hasParams(hasLower, hasUpper) == hasLower /\ hasUpper

(* onSaveThresholds(request) *)
onSaveThresholds ==
    /\ reqPc = "idle"
    /\ \E ls \in ParamValues, us \in ParamValues :
         LET hasLower == ls # Missing
             hasUpper == us # Missing
             obs == [Observed("savethresholds") EXCEPT
                       !.hasLower = hasLower, !.hasUpper = hasUpper, !.sent = <<200>>]
         IN  IF hasParams(hasLower, hasUpper)
             THEN LET lower == toFloat(ls)
                      upper == toFloat(us)
                      r == saveTempRangeToEEPROM(tempRange, eeprom, lower, upper)
                  IN  /\ tempRange' = r.range
                      /\ eeprom' = r.rom
                      /\ IF r.commit
                         THEN \E ok \in CommitOutcomes :
                                /\ Commit(r.rom, ok)
                                /\ last' = [obs EXCEPT !.lower = lower, !.upper = upper,
                                                       !.calls = r.calls, !.fault = ~ok]
                         ELSE /\ UNCHANGED <<flash, faults>>
                              /\ last' = [obs EXCEPT !.lower = lower, !.upper = upper,
                                                     !.calls = r.calls]
             ELSE /\ UNCHANGED storeVars
                  /\ last' = obs
    /\ UNCHANGED <<sinceRead, ledVars, loopVars, now, advances, dht, reqPc, req, window>>

(* onReset(request): the buffer it leaves and the EEPROM calls it makes.    *)

(* Variant: erases the flag whether or not it was set.                     *)
resetFlag_always(range, rom) ==
    [rom |-> [rom EXCEPT !.flag = ERASED_FLAG],
     calls |-> <<Call("writeByte", ADDR_INIT_FLAG, ERASED_FLAG), Call("commit", 0, 0)>>,
     commit |-> TRUE]

resetFlag(range, rom) ==
    IF range.initialized
    THEN [rom |-> [rom EXCEPT !.flag = ERASED_FLAG],
          calls |-> <<Call("writeByte", ADDR_INIT_FLAG, ERASED_FLAG), Call("commit", 0, 0)>>,
          commit |-> TRUE]
    ELSE [rom |-> rom, calls |-> <<>>, commit |-> FALSE]

onReset ==
    /\ reqPc = "idle"
    /\ LET r == resetFlag(tempRange, eeprom)
       IN  /\ eeprom' = r.rom
           /\ IF r.commit
              THEN \E ok \in CommitOutcomes :
                     /\ Commit(r.rom, ok)
                     /\ last' = [Observed("reset") EXCEPT !.calls = r.calls,
                                                          !.sent = <<200>>, !.fault = ~ok]
              ELSE /\ UNCHANGED <<flash, faults>>
                   /\ last' = [Observed("reset") EXCEPT !.calls = r.calls,
                                                        !.sent = <<200>>]
    /\ tempRange' = Range(FALSE, MIN_TEMP, MAX_TEMP)
    /\ UNCHANGED <<sinceRead, ledVars, loopVars, now, advances, dht, reqPc, req, window>>

(* onReboot(request): the response, then ESP.restart() and setup() again:  *)
(* the buffer is loaded from flash and the range is read from it.          *)
onReboot ==
    /\ reqPc = "idle"
    /\ eeprom' = flash
    /\ tempRange' = initTempRange(eeprom')
    /\ readingTemperature' = FALSE
    /\ startRead' = 0
    /\ initLed' = LOW
    /\ tempLed' = LOW
    /\ now' = SETUP_MS
    /\ loopPc' = "wifi"
    /\ tickV' = FALSE
    /\ window' = "none"
    /\ sample' = NoSample
    /\ sinceRead' = SETUP_MS
    /\ last' = [Observed("reboot") EXCEPT
                  !.sent = <<200>>,
                  !.calls = <<Call("send", 0, 200), Call("restart", 0, 0)>>]
    /\ UNCHANGED <<flash, faults, advances, dht, reqPc, req>>

(* onNotFound(request) *)
onNotFound ==
    /\ reqPc = "idle"
    /\ last' = [Observed("notfound") EXCEPT !.sent = <<404>>]
    /\ UNCHANGED <<sinceRead, storeVars, ledVars, loopVars, now, advances, dht, reqPc, req, window>>

----------------------------------------------------------------------------
(* readTemperature(), called by onTemp and by processor("TEMP"): its two   *)
(* writes, then the sensor read.                                           *)

readTemperature_startRead ==
    /\ reqPc = "idle"
    /\ \E handler \in {"temp", "root"} :
         /\ req' = handler
         /\ last' = Observed(handler)
    /\ startRead' = now
    /\ reqPc' = "flag"
    /\ window' = "open"
    /\ sample' = [sample EXCEPT !.after = FALSE]
    /\ sinceRead' = 0
    /\ UNCHANGED <<storeVars, readingTemperature, initLed, tempLed, now, advances,
                   dht, loopPc, tickV>>

readTemperature_flag ==
    /\ reqPc = "flag"
    /\ readingTemperature' = TRUE
    /\ reqPc' = "dht"
    /\ UNCHANGED <<sinceRead, storeVars, startRead, initLed, tempLed, now, advances, dht, req,
                   loopVars, window, last>>

(* checkForTriggers(temp): the trigger functions it calls.                 *)

(* Variant: a reading on a bound is out of range.                          *)
checkForTriggers_inclusive(temp, range) ==
    IF ~FloatGt(temp, range.lower) /\ ~isnan(range.lower) THEN <<"lowTemperatureTrigger">>
    ELSE IF ~FloatLt(temp, range.upper) /\ ~isnan(range.upper) THEN <<"highTemperatureTrigger">>
    ELSE <<>>

(* Variant: the two comparisons are made one after the other.              *)
checkForTriggers_both(temp, range) ==
    (IF FloatLt(temp, range.lower) THEN <<"lowTemperatureTrigger">> ELSE <<>>)
        \o (IF FloatGt(temp, range.upper) THEN <<"highTemperatureTrigger">> ELSE <<>>)

checkForTriggers(temp, range) ==
    IF FloatLt(temp, range.lower) THEN <<"lowTemperatureTrigger">>
    ELSE IF FloatGt(temp, range.upper) THEN <<"highTemperatureTrigger">>
    ELSE <<>>

(* String(t, digits) of a number, or the text "Error".                     *)
Text(t, digits) == [text |-> "number", value |-> t, digits |-> digits]
ErrorText == [text |-> "Error", value |-> 0, digits |-> 0]

(* Variant: a reading that is not a number gets no response.               *)
onTemp_silentOnError ==
    /\ reqPc = "dht"
    /\ req = "temp"
    /\ LET temp == dht
       IN  IF isnan(temp)
           THEN last' = [last EXCEPT !.temp = temp, !.reads = 1]
           ELSE last' = [last EXCEPT !.temp = temp, !.reads = 1, !.sent = <<200>>,
                                     !.hooks = checkForTriggers(temp, tempRange),
                                     !.body = Text(temp, 2)]
    /\ reqPc' = "idle"
    /\ req' = "none"
    /\ UNCHANGED <<sinceRead, storeVars, ledVars, loopVars, now, advances, dht, window>>

(* onTemp(request), from the return of readTemperature() on.               *)
onTemp ==
    /\ reqPc = "dht"
    /\ req = "temp"
    /\ LET temp == dht
       IN  IF isnan(temp)
           THEN last' = [last EXCEPT !.temp = temp, !.reads = 1, !.sent = <<200>>,
                                     !.body = ErrorText]
           ELSE last' = [last EXCEPT !.temp = temp, !.reads = 1, !.sent = <<200>>,
                                     !.hooks = checkForTriggers(temp, tempRange),
                                     !.body = Text(temp, 2)]
    /\ reqPc' = "idle"
    /\ req' = "none"
    /\ UNCHANGED <<sinceRead, storeVars, ledVars, loopVars, now, advances, dht, window>>

(* onRootRequest(request): processor("TEMP"), from the return of           *)
(* readTemperature() on; the other variables of the page have no effect.   *)
onRootRequest ==
    /\ reqPc = "dht"
    /\ req = "root"
    /\ LET t == dht
       IN  last' = [last EXCEPT !.temp = t, !.reads = 1, !.sent = <<200>>,
                                !.body = IF isnan(t) THEN ErrorText ELSE Text(t, 1)]
    /\ reqPc' = "idle"
    /\ req' = "none"
    /\ UNCHANGED <<sinceRead, storeVars, ledVars, loopVars, now, advances, dht, window>>

----------------------------------------------------------------------------
(* loop(): flashWiFiBeacon(), then flashTempBeacon() one memory access at  *)
(* a time.                                                                 *)

(* The difference of two unsigned values of the width of the clock.        *)

(* Variant: the difference is taken as a signed number.                    *)
Elapsed_signed(t, start) == t - start

Elapsed(t, start) == (t - start) % ClockModulus

(* Variant: the flash lasts one millisecond more.                          *)
wifiBeacon_inclusive(t) == IF t % WIFI_PERIOD_MS <= WIFI_FLASH_MS THEN HIGH ELSE LOW

wifiBeacon(t) == IF t % WIFI_PERIOD_MS < WIFI_FLASH_MS THEN HIGH ELSE LOW

flashWiFiBeacon ==
    /\ loopPc = "wifi"
    /\ initLed' = wifiBeacon(now)
    /\ loopPc' = "test"
    /\ UNCHANGED <<sinceRead, storeVars, readingTemperature, startRead, tempLed, now, advances,
                   dht, reqPc, req, tickV, window, sample, last>>

(* if (readingTemperature) *)
flashTempBeacon_test ==
    /\ loopPc = "test"
    /\ loopPc' = IF readingTemperature THEN "calc" ELSE "wifi"
    /\ sample' = [sample EXCEPT !.at = now,
                                !.after = window # "none" /\ reqPc \in {"idle", "dht"}]
    /\ UNCHANGED <<sinceRead, storeVars, ledVars, now, advances, dht, reqPc, req, tickV,
                   window, last>>

(* millis() - startRead < 50 *)
flashTempBeacon_calc ==
    /\ loopPc = "calc"
    /\ tickV' = (Elapsed(now, startRead) < TEMP_FLASH_MS)
    /\ sample' = [sample EXCEPT !.at = now]
    /\ window' = IF tickV' THEN window ELSE "expired"
    /\ loopPc' = "store"
    /\ UNCHANGED <<sinceRead, storeVars, ledVars, now, advances, dht, reqPc, req, last>>

(* Variant: the end of the flash also clears startRead.                    *)
flashTempBeacon_store_clearStart ==
    /\ loopPc = "store"
    /\ readingTemperature' = tickV
    /\ startRead' = IF tickV THEN startRead ELSE 0
    /\ loopPc' = "led"
    /\ UNCHANGED <<sinceRead, storeVars, initLed, tempLed, now, advances, dht,
                   reqPc, req, tickV, window, sample, last>>

(* readingTemperature = ... *)
flashTempBeacon_store ==
    /\ loopPc = "store"
    /\ readingTemperature' = tickV
    /\ loopPc' = "led"
    /\ UNCHANGED <<sinceRead, storeVars, startRead, initLed, tempLed, now, advances, dht,
                   reqPc, req, tickV, window, sample, last>>

(* digitalWrite(TEMP_LED, readingTemperature ? HIGH : LOW): the flag is    *)
(* read again, or the value just stored is used.                           *)
flashTempBeacon_led ==
    /\ loopPc = "led"
    /\ \E v \in {tickV, readingTemperature} :
         tempLed' = IF v THEN HIGH ELSE LOW
    /\ loopPc' = "wifi"
    /\ UNCHANGED <<sinceRead, storeVars, readingTemperature, startRead, initLed, now, advances,
                   dht, reqPc, req, tickV, window, sample, last>>

(* The clock advances. *)
Advance ==
    /\ advances < MaxAdvances
    /\ \E d \in ClockSteps :
         /\ now' = (now + d) % ClockModulus
         /\ sinceRead' = sinceRead + d
    /\ advances' = advances + 1
    /\ UNCHANGED <<storeVars, ledVars, loopVars, dht, reqPc, req, window, last>>

----------------------------------------------------------------------------
(* The request handlers that use the EEPROM, and the restart.               *)

InitStore ==
    /\ Init
    /\ dht = 12

NextStore ==
    \/ onSaveThresholds
    \/ onReset
    \/ onReboot

SpecStore == InitStore /\ [][NextStore]_vars

(* The request handlers that read the sensor, with every range that the    *)
(* EEPROM can hold at startup and every reading.                           *)

NextSensor ==
    \/ readTemperature_startRead
    \/ readTemperature_flag
    \/ onTemp
    \/ onRootRequest

SpecSensor == Init /\ [][NextSensor]_vars

(* Every request handler of the web server, on a device whose EEPROM was   *)
(* never written or holds a saved range, and whose commits all succeed.    *)

InitRequests ==
    /\ Setup(SETUP_MS, MaxFaults)
    /\ flash \in {Rom(ERASED_FLAG, NaN, NaN), Rom(INIT_FLAG, 10, 14)}
    /\ dht \in {12, NaN}

NextRequests ==
    \/ onSaveThresholds
    \/ onReset
    \/ onReboot
    \/ onNotFound
    \/ readTemperature_startRead
    \/ readTemperature_flag
    \/ onTemp
    \/ onRootRequest

SpecRequests == InitRequests /\ [][NextRequests]_vars

(* The loop task and the sensor readings of the web server task, on a      *)
(* device whose EEPROM was never written.                                  *)

InitLoop ==
    /\ Init
    /\ flash = Rom(ERASED_FLAG, NaN, NaN)
    /\ dht \in {12, NaN}

NextLoop ==
    \/ readTemperature_startRead
    \/ readTemperature_flag
    \/ onTemp
    \/ onRootRequest
    \/ flashWiFiBeacon
    \/ flashTempBeacon_test
    \/ flashTempBeacon_calc
    \/ flashTempBeacon_store
    \/ flashTempBeacon_led
    \/ Advance

SpecLoop == InitLoop /\ [][NextLoop]_vars

(* The same two tasks when the clock is about to wrap to zero.             *)

InitWrap ==
    /\ Setup(ClockModulus - 25, 0)
    /\ flash = Rom(ERASED_FLAG, NaN, NaN)
    /\ dht \in {12, NaN}

SpecWrap == InitWrap /\ [][NextLoop]_vars

----------------------------------------------------------------------------
(* Properties of the range and of the EEPROM (SpecStore) *)

Saving == last.op = "savethresholds" /\ last.hasLower /\ last.hasUpper
LowerDiffers == FloatNe(last.lower, last.pre.lower)
UpperDiffers == FloatNe(last.upper, last.pre.upper)

CallsTo(addr) ==
    {i \in DOMAIN last.calls : last.calls[i].call # "commit" /\ last.calls[i].addr = addr}
Commits == {i \in DOMAIN last.calls : last.calls[i].call = "commit"}
Writes == {i \in DOMAIN last.calls : last.calls[i].call \in {"writeFloat", "writeByte"}}

(* C1: a save whose two values equal the range held in memory makes no     *)
(* EEPROM write and no commit, and leaves the range, the initialized flag, *)
(* the buffer and the flash as they were.                                  *)
NoOpWriteAvoidance ==
    (Saving /\ FloatEq(last.lower, last.pre.lower) /\ FloatEq(last.upper, last.pre.upper))
        => /\ last.calls = <<>>
           /\ tempRange = last.pre
           /\ eeprom = last.rom
           /\ flash = last.disk

NoOpSaveDone ==
    /\ Saving
    /\ FloatEq(last.lower, last.pre.lower)
    /\ FloatEq(last.upper, last.pre.upper)
    /\ last.pre.initialized
    /\ last.pre.lower # MIN_TEMP

(* C2: when no commit has failed, a restart reads back from the EEPROM the *)
(* lower bound, the upper bound and the initialized flag that were held in *)
(* memory just before it.                                                  *)
DurableReconciliation ==
    (last.op = "reboot" /\ faults = 0) => tempRange = last.pre

(* C3: a save that changes a bound while the range is not initialized      *)
(* stores INIT_FLAG in the flag slot, commits exactly once and after every *)
(* write, and leaves the range initialized and equal to the given pair.    *)
BootstrapFlagging ==
    (Saving /\ ~last.pre.initialized /\ (LowerDiffers \/ UpperDiffers))
        => /\ \E i \in DOMAIN last.calls :
                last.calls[i] = Call("writeByte", ADDR_INIT_FLAG, INIT_FLAG)
           /\ eeprom.flag = INIT_FLAG
           /\ Cardinality(Commits) = 1
           /\ \A i \in Writes : \A j \in Commits : i < j
           /\ tempRange = Range(TRUE, last.lower, last.upper)

BootstrapSaveDone ==
    /\ Saving
    /\ ~last.pre.initialized
    /\ LowerDiffers
    /\ UpperDiffers
    /\ last.rom.flag = ERASED_FLAG
    /\ tempRange.initialized

(* C4: a save in which exactly one bound differs from the range in memory  *)
(* writes the slot of that bound, does not write the slot of the other     *)
(* bound, and commits exactly once.                                        *)
PartialBoundChange ==
    /\ (Saving /\ LowerDiffers /\ ~UpperDiffers)
          => /\ CallsTo(ADDR_MIN_TEMP) # {}
             /\ CallsTo(ADDR_MAX_TEMP) = {}
             /\ eeprom.min = last.lower
             /\ eeprom.max = last.rom.max
             /\ Cardinality(Commits) = 1
    /\ (Saving /\ UpperDiffers /\ ~LowerDiffers)
          => /\ CallsTo(ADDR_MAX_TEMP) # {}
             /\ CallsTo(ADDR_MIN_TEMP) = {}
             /\ eeprom.max = last.upper
             /\ eeprom.min = last.rom.min
             /\ Cardinality(Commits) = 1

UpperOnlySaveDone ==
    /\ Saving
    /\ UpperDiffers
    /\ ~LowerDiffers
    /\ last.pre.initialized
    /\ eeprom.max # last.rom.max

(* C5: after setup() the range is initialized and equal to the stored      *)
(* bounds when the stored flag is INIT_FLAG, and is not initialized and    *)
(* equal to [MIN_TEMP, MAX_TEMP] for every other flag; setup() leaves the  *)
(* flash as it was, with no EEPROM write and no commit.                    *)
BootstrapReadsStore ==
    (last.op \in {"setup", "reboot"})
        => /\ IF flash.flag = INIT_FLAG
              THEN tempRange = Range(TRUE, flash.min, flash.max)
              ELSE tempRange = Range(FALSE, MIN_TEMP, MAX_TEMP)
           /\ flash = last.disk
           /\ eeprom = flash
           /\ Writes = {}
           /\ Commits = {}

RebootedOnOtherFlag ==
    /\ last.op = "reboot"
    /\ faults = 0
    /\ flash.flag = 0
    /\ flash.min = 0
    /\ tempRange = Range(FALSE, MIN_TEMP, MAX_TEMP)

(* C6: a reset leaves the range at [MIN_TEMP, MAX_TEMP] and not            *)
(* initialized; it stores the erase value in the flag slot and commits     *)
(* exactly when the range was initialized before, so a reset that follows  *)
(* a reset makes no EEPROM call and changes nothing.                       *)
ResetIdempotence ==
    (last.op = "reset")
        => /\ tempRange = Range(FALSE, MIN_TEMP, MAX_TEMP)
           /\ last.pre.initialized
                 => /\ last.calls = <<Call("writeByte", ADDR_INIT_FLAG, ERASED_FLAG),
                                      Call("commit", 0, 0)>>
                    /\ eeprom = [last.rom EXCEPT !.flag = ERASED_FLAG]
           /\ ~last.pre.initialized
                 => /\ last.calls = <<>>
                    /\ eeprom = last.rom
                    /\ flash = last.disk
           /\ last.prev = "reset"
                 => /\ last.calls = <<>>
                    /\ tempRange = last.pre
                    /\ eeprom = last.rom
                    /\ flash = last.disk

SecondResetDone ==
    /\ last.op = "reset"
    /\ last.prev = "reset"
    /\ flash.flag = ERASED_FLAG

(* C13: in every state the lower bound of the range in memory is a number *)
(* not below MIN_TEMP and the upper bound a number not above MAX_TEMP.     *)
FactoryEnvelope ==
    /\ ~isnan(tempRange.lower) /\ ~FloatLt(tempRange.lower, MIN_TEMP)
    /\ ~isnan(tempRange.upper) /\ ~FloatGt(tempRange.upper, MAX_TEMP)

(* C11: a save or a reset in which a commit failed does not answer the     *)
(* request with the status of success.                                     *)
StoreFaultSurfaced ==
    (last.op \in {"savethresholds", "reset"} /\ last.fault) => last.sent # <<200>>

(* C14: a save with two numbers, in any order, leaves exactly these two as *)
(* the bounds of the range in memory, and commits once when one of them    *)
(* differs from the bound held in memory before the save, and not at all   *)
(* otherwise.                                                              *)
UpdateAcceptsAnyPair ==
    (Saving /\ ~isnan(last.lower) /\ ~isnan(last.upper))
        => /\ tempRange.lower = last.lower
           /\ tempRange.upper = last.upper
           /\ Cardinality(Commits) = IF LowerDiffers \/ UpperDiffers THEN 1 ELSE 0

InvertedPairSaved ==
    /\ Saving
    /\ last.prev = "savethresholds"
    /\ last.lower = 14
    /\ last.upper = 10
    /\ FloatNe(last.pre.lower, last.rom.min)
    /\ tempRange = Range(TRUE, 14, 10)
    /\ Cardinality(Commits) = 1

(* C15: while no commit has failed, the range in memory is initialized     *)
(* exactly when the flag slot of the flash holds INIT_FLAG; INIT_FLAG is    *)
(* written only by a save that finds the range not initialized and leaves  *)
(* it initialized; a save that finds the range initialized makes no write  *)
(* to the flag slot.                                                       *)
FlagBootstrapOnce ==
    /\ faults = 0 => (tempRange.initialized <=> flash.flag = INIT_FLAG)
    /\ (\E i \in DOMAIN last.calls :
            last.calls[i] = Call("writeByte", ADDR_INIT_FLAG, INIT_FLAG))
          => (Saving /\ ~last.pre.initialized /\ tempRange.initialized)
    /\ (Saving /\ last.pre.initialized) => CallsTo(ADDR_INIT_FLAG) = {}

InitializedSaveDone ==
    /\ Saving
    /\ last.pre.initialized
    /\ LowerDiffers
    /\ faults = 0
    /\ flash.flag = INIT_FLAG
    /\ flash.min = last.lower
    /\ tempRange.initialized

(* C17: a /savethresholds request without "lower" or without "upper" makes *)
(* no EEPROM call, leaves the range, the initialized flag, the buffer and  *)
(* the flash as they were, and is answered.                                *)
MalformedSaveIgnored ==
    (last.op = "savethresholds" /\ ~(last.hasLower /\ last.hasUpper))
        => /\ last.calls = <<>>
           /\ tempRange = last.pre
           /\ eeprom = last.rom
           /\ flash = last.disk
           /\ ~last.fault
           /\ Len(last.sent) = 1

UpperMissingSaveDone ==
    /\ last.op = "savethresholds"
    /\ last.hasLower
    /\ ~last.hasUpper
    /\ tempRange.initialized
    /\ tempRange.lower # 0
    /\ last.sent = <<200>>

----------------------------------------------------------------------------
(* Properties of the triggers (SpecSensor) *)

Answered(handler) == last.op = handler /\ reqPc = "idle" /\ last.sent # <<>>

Called(hook) == \E i \in DOMAIN last.hooks : last.hooks[i] = hook

(* C7, as stated: after a /temp request the low trigger was called exactly *)
(* when the reading is below the lower bound, the high trigger exactly     *)
(* when the reading is above the upper bound, and no trigger was called    *)
(* for a reading that is not a number.                                     *)
ThresholdClassificationIff ==
    Answered("temp")
        => /\ Called("lowTemperatureTrigger") <=> FloatLt(last.temp, tempRange.lower)
           /\ Called("highTemperatureTrigger") <=> FloatGt(last.temp, tempRange.upper)
           /\ isnan(last.temp) => last.hooks = <<>>

(* C7, amended: the high trigger was called exactly when the reading is    *)
(* above the upper bound and not below the lower bound.                    *)
ThresholdClassification ==
    Answered("temp")
        => /\ Called("lowTemperatureTrigger") <=> FloatLt(last.temp, tempRange.lower)
           /\ Called("highTemperatureTrigger")
                 <=> (FloatGt(last.temp, tempRange.upper)
                        /\ ~FloatLt(last.temp, tempRange.lower))
           /\ Len(last.hooks) <= 1
           /\ isnan(last.temp) => last.hooks = <<>>

ReadingInsideInvertedRange ==
    /\ Answered("temp")
    /\ FloatLt(last.temp, tempRange.lower)
    /\ FloatGt(last.temp, tempRange.upper)
    /\ last.hooks = <<"lowTemperatureTrigger">>

(* C12: a trigger is called only by onTemp and only for a reading that is  *)
(* a number; the page template calls none; a request reads the sensor once *)
(* and calls at most one trigger; a reading that is not a number is        *)
(* answered with the text "Error" and calls no trigger.                    *)
TriggersOnlyFromValidQuery ==
    /\ last.hooks # <<>> => (last.op = "temp" /\ ~isnan(last.temp))
    /\ Len(last.hooks) <= 1
    /\ last.reads <= 1
    /\ ((Answered("temp") \/ Answered("root")) /\ isnan(last.temp))
          => /\ last.hooks = <<>>
             /\ last.reads = 1
             /\ last.body = ErrorText

TemplateReadingBelowRange ==
    /\ Answered("root")
    /\ FloatLt(last.temp, tempRange.lower)
    /\ last.hooks = <<>>
    /\ last.body = Text(last.temp, 1)

----------------------------------------------------------------------------
(* Properties of the responses (SpecRequests) *)

Handlers == {"temp", "reset", "reboot", "savethresholds", "notfound"}

(* C16: a handler of /temp, /reset, /reboot, /savethresholds or of an      *)
(* unknown path that has returned has sent exactly one response, a handler *)
(* that has not returned yet has sent none, and onReboot has sent its      *)
(* response before it calls ESP.restart().                                 *)
RequestsResolved ==
    /\ (reqPc = "idle" /\ last.op \in Handlers) => Len(last.sent) = 1
    /\ reqPc # "idle" => last.sent = <<>>
    /\ last.op = "reboot"
          => /\ last.calls[Len(last.calls)].call = "restart"
             /\ \E i \in 1..(Len(last.calls) - 1) : last.calls[i].call = "send"
             /\ Cardinality({i \in DOMAIN last.calls : last.calls[i].call = "send"}) = 1

FailedReadingAnswered ==
    /\ last.op = "temp"
    /\ reqPc = "idle"
    /\ isnan(last.temp)
    /\ last.prev = "reboot"
    /\ last.sent = <<200>>

----------------------------------------------------------------------------
(* Properties of the two LED indicators (SpecLoop) *)

(* C8: with a reading started at startRead and finished, and no reading    *)
(* started since, a pass of flashTempBeacon that began after the reading   *)
(* and sampled the clock less than 50 ms after startRead leaves the flag   *)
(* set and TEMP_LED high; a pass that sampled it 50 ms or more after       *)
(* startRead leaves the flag clear and TEMP_LED low.                       *)
FlashDecay ==
    (loopPc = "wifi" /\ sample.after)
        => IF sample.at - startRead < 50
           THEN readingTemperature /\ tempLed = HIGH
           ELSE ~readingTemperature /\ tempLed = LOW

(* C9: once readTemperature() has set the flag, the flag stays set until a *)
(* pass of flashTempBeacon has found 50 ms or more elapsed since the       *)
(* startRead of that reading.                                              *)
FlashWindowKept ==
    (window = "open" /\ reqPc # "flag") => readingTemperature

(* C10: every pass of flashWiFiBeacon sets INIT_LED high exactly when      *)
(* millis() modulo 2000 is below 50, and low otherwise.                    *)
ConnectivityPeriodicity ==
    [][(loopPc = "wifi" /\ loopPc' = "test")
          => /\ initLed' \in {HIGH, LOW}
             /\ initLed' = HIGH <=> now % 2000 < 50]_vars

WiFiFlashLastMillisecond ==
    /\ loopPc = "test"
    /\ now % 2000 = 49
    /\ initLed = HIGH
    /\ readingTemperature

(* C18: a step of the loop task changes no variable of the program but    *)
(* the two LED outputs and the flag of the TEMP_LED flash: the range, its  *)
(* initialized flag, the EEPROM buffer, the flash and startRead stay as    *)
(* they were; a step of readTemperature() leaves the range, its            *)
(* initialized flag, the EEPROM buffer and the flash as they were.         *)
TickAndAcquireFrame ==
    [][/\ loopPc' # loopPc
            => UNCHANGED <<tempRange, eeprom, flash, faults, startRead, dht, reqPc, req, last>>
       /\ (reqPc' # reqPc /\ reqPc' \in {"flag", "dht"})
            => UNCHANGED <<tempRange, eeprom, flash, faults>>]_vars

TickEndedFlash ==
    /\ loopPc = "wifi"
    /\ window = "expired"
    /\ ~readingTemperature
    /\ tempLed = LOW
    /\ initLed = HIGH
    /\ startRead > SETUP_MS
    /\ reqPc = "idle"

----------------------------------------------------------------------------
(* Properties of the clock arithmetic (SpecWrap) *)

(* C19: with less than one period of the clock elapsed since startRead was *)
(* written, every pass of flashTempBeacon that evaluates the flash keeps   *)
(* it exactly when less than 50 ms have truly elapsed, also when the clock *)
(* has wrapped to zero in between.                                         *)
WrapSafeFlash ==
    [][(loopPc = "calc" /\ loopPc' = "store" /\ sinceRead < ClockModulus)
          => (tickV' <=> sinceRead < TEMP_FLASH_MS)]_vars

WrappedTickEndsFlash ==
    /\ loopPc = "store"
    /\ now < startRead
    /\ sinceRead = TEMP_FLASH_MS
    /\ ~tickV

====
